---- MODULE Spec2Model ----
(***************************************************************************)
(* Model of the LibreTranslate Lambda adapter (src/handler.py) and of its  *)
(* EFS bootstrap script (src/scripts/ensure_models_on_efs.py): the search   *)
(* for an application object at import, and, for the case in which none    *)
(* is found, the supervised loopback server and the proxy to it.           *)
(*                                                                         *)
(* Invocations are threads of one instance.  Each statement group of       *)
(* ensure_server_running that reads or writes shared state (the module     *)
(* globals server_started, server_thread, server_start_exc and the         *)
(* filesystem) is one action, so every interleaving the interpreter can    *)
(* produce between those groups is a behaviour of the model.               *)
(*                                                                         *)
(* Time is not counted.  The two durations of the code, the 60 s deadline  *)
(* of wait_for_port and the 70 s timeout of server_started.wait, are lower *)
(* bounds on when the corresponding branch can be taken and nothing in the *)
(* code bounds from above how long an import, a download or a thread       *)
(* switch takes; every order of events is therefore realisable and the     *)
(* expiry of a timer is an action that is enabled whenever its thread is   *)
(* at the timed call.                                                      *)
(***************************************************************************)
EXTENDS Integers, Sequences, FiniteSets, TLC

\* Number of invocations the instance receives (concurrently or in sequence).
NumInv == 2

Inv == 1..NumInv

VARIABLES
    env,               \* os.environ and the runtime image, fixed per instance
    mnt,               \* what is at /mnt/models
    tmp,               \* what is at /tmp/models
    server_started,    \* threading.Event (handler.py:85)
    server_thread,     \* 0 for None, else the Thread object made by that invocation
    server_start_exc,  \* TRUE when an exception is recorded (handler.py:87)
    launch,            \* per Thread object running start_main_in_thread
    main,              \* per run_main thread (the backend's own main())
    pc,                \* per invocation: where it is in lambda_handler
    prov,              \* per invocation: how its provisioning step ended
    xroutine,          \* extraction: which routine walks the archive
    xlinks,            \* extraction: symlinks to outside created under the target
    xlast,             \* extraction: what happened to the last member
    xcount,            \* extraction: members consumed so far
    event,             \* proxy: the event lambda_handler was given
    req,               \* proxy: the urllib Request forward_to_local built
    upstream,          \* proxy: what the backend does with the request
    reply,             \* proxy: how forward_to_local ended
    modules,           \* resolver: what importing each candidate module does
    app                \* resolver: the module global app (handler.py:52)

supVars == <<server_started, server_thread, server_start_exc, launch, main>>
fsVars == <<mnt, tmp>>
invVars == <<pc, prov>>
xVars == <<xroutine, xlinks, xlast, xcount>>
tVars == <<event, req, upstream, reply>>
rVars == <<modules, app>>
vars == <<env, mnt, tmp, server_started, server_thread, server_start_exc,
          launch, main, pc, prov, xroutine, xlinks, xlast, xcount,
          event, req, upstream, reply, modules, app>>

(***************************************************************************)
(* Environment                                                             *)
(***************************************************************************)
\* LT_EFS_MOUNT: unset or "/mnt/models" ("mnt"), or another path, which is
\* either unusable (absent or an empty directory) or a populated directory.
\* Nothing in the program writes below a custom mount path.
EfsSettings == {"mnt", "custom_unusable", "custom_full"}

\* "lt": LT_S3_BUCKET and LT_S3_MODEL_KEY; "alt": only MODEL_BUCKET / MODEL_KEY.
S3Settings == {"none", "lt", "alt"}

\* "inproc": `from scripts import ensure_models_on_efs` works;
\* "subproc": that import raises and the script is run as a subprocess;
\* "noboto": boto3 is not installed (handler.py:22-25), so the script's own
\*           `import boto3` raises both in-process and in the subprocess.
Runtimes == {"inproc", "subproc", "noboto"}

EnvSettings == [efs : EfsSettings, s3 : S3Settings, runtime : Runtimes]

MntStates == {"absent", "empty", "full", "partial", "extracted", "link"}
BundleStates == {"none", "partial", "complete"}

PcValues == {"idle", "prov_check", "boot", "stream", "streaming", "dl_check",
             "dl_begin", "downloading", "extract", "extracting", "symlink", "gate",
             "check_thread", "assign", "start", "wait", "check_exc", "check_set",
             "returned_gate", "returned_wait", "raised_exc", "raised_notready",
             "raised_start", "raised_prov"}

\* How a provisioning step ended: "present" is the already-populated
\* shortcut (handler.py:104-106, ensure_models_on_efs.py:51-53), "extracted"
\* and "downloaded" a True result after network use, "failed" a False result
\* or a failed subprocess, "skipped" the branch of handler.py:214.
ProvValues == {"none", "efs_present", "efs_extracted", "efs_failed",
               "s3_present", "s3_downloaded", "s3_failed", "skipped"}

LaunchStates == {"none", "created", "import", "poll", "ready", "raised", "timedout"}
MainStates == {"none", "running", "listening", "raised"}

(***************************************************************************)
(* Filesystem                                                              *)
(***************************************************************************)
\* os.listdir("/tmp/models") is non-empty: a downloaded archive, extracted
\* members, or the file a running s3.download_file is writing.
TmpNonEmpty ==
    \/ tmp.archive
    \/ tmp.bundle # "none"
    \/ \E j \in Inv : pc[j] = "downloading"

\* os.path.exists("/mnt/models") and os.listdir("/mnt/models"); both follow
\* the link handler.py:208 makes to /tmp/models.
MntNonEmpty ==
    IF mnt = "link" THEN tmp.exists /\ TmpNonEmpty
    ELSE mnt \in {"full", "partial", "extracted"}

\* handler.py:176: os.path.exists(EFS_MOUNT_PATH) and os.listdir(EFS_MOUNT_PATH)
EfsNonEmpty ==
    IF env.efs = "mnt" THEN MntNonEmpty ELSE env.efs = "custom_full"

\* handler.py:197-199: LT_S3_BUCKET or MODEL_BUCKET, LT_S3_MODEL_KEY or MODEL_KEY
S3Configured == env.s3 # "none"

\* ensure_models_on_efs.py:39-43: only LT_S3_BUCKET and LT_S3_MODEL_KEY are read
ScriptS3Configured == env.s3 = "lt"

\* A bug the handler does not have: the shortcut of handler.py:104 looks for
\* the downloaded archive instead of listing the directory.
ArchiveStillThere == tmp.exists /\ tmp.archive

\* handler.py:104: os.path.exists(dest_dir) and os.listdir(dest_dir)
ModelsAlreadyExist == tmp.exists /\ TmpNonEmpty

(***************************************************************************)
(* Provisioning (handler.py:174-214 and the bootstrap script)              *)
(***************************************************************************)
Go(i, p) == pc' = [pc EXCEPT ![i] = p]

\* The provisioning step of invocation i ends with `result`; control reaches
\* handler.py:216.
Finish(i, result) ==
    /\ prov' = [prov EXCEPT ![i] = result]
    /\ Go(i, "gate")

\* lambda_handler is entered (handler.py:287-288).
Invoke(i) ==
    /\ pc[i] = "idle"
    /\ Go(i, "prov_check")
    /\ UNCHANGED <<env, fsVars, supVars, prov, xVars, tVars, rVars>>

\* handler.py:175-176, 195-199, 213-214: choose the branch.
ProvCheck(i) ==
    /\ pc[i] = "prov_check"
    /\ IF EfsNonEmpty
          THEN Go(i, "boot") /\ UNCHANGED prov
          ELSE IF S3Configured
                  THEN Go(i, "dl_check") /\ UNCHANGED prov
                  ELSE Finish(i, "skipped")
    /\ UNCHANGED <<env, fsVars, supVars, xVars, tVars, rVars>>

\* ensure_models(mount_path), ensure_models_on_efs.py:38-53: the checks made
\* before any download.  `target` is "mnt" for /mnt/models and "custom" for a
\* custom LT_EFS_MOUNT.
EnsureModels(i, target) ==
    IF ~ScriptS3Configured
       THEN Finish(i, "efs_failed") /\ UNCHANGED fsVars
       ELSE IF target = "custom"
               THEN IF env.efs = "custom_full"
                       THEN Finish(i, "efs_present") /\ UNCHANGED fsVars
                       ELSE Go(i, "stream") /\ UNCHANGED <<prov, fsVars>>
               ELSE IF MntNonEmpty
                       THEN Finish(i, "efs_present") /\ UNCHANGED fsVars
                       ELSE /\ mnt' = IF mnt = "absent" THEN "empty" ELSE mnt
                            /\ Go(i, "stream")
                            /\ UNCHANGED <<prov, tmp>>

\* handler.py:177-187: the script's module imports and ensure_models runs
\* in-process on EFS_MOUNT_PATH; a False result is only logged.
InProcessBootstrap(i) ==
    EnsureModels(i, IF env.efs = "mnt" THEN "mnt" ELSE "custom")

\* A bug the handler does not have: the exception of the in-process attempt
\* leaves ensure_server_running.
BootstrapExceptionEscapes(i) ==
    /\ prov' = [prov EXCEPT ![i] = "efs_failed"]
    /\ Go(i, "raised_prov")
    /\ UNCHANGED fsVars

\* handler.py:188-194: the in-process attempt raised; the script is run as a
\* subprocess, with its default mount_path '/mnt/models'
\* (ensure_models_on_efs.py:64-66), and a failing subprocess is only logged.
SubprocessBootstrap(i) ==
    IF env.runtime = "noboto"
       THEN Finish(i, "efs_failed") /\ UNCHANGED fsVars
       ELSE EnsureModels(i, "mnt")

\* handler.py:176-194, entered with a non-empty EFS_MOUNT_PATH.
EfsBootstrap(i) ==
    /\ pc[i] = "boot"
    /\ IF env.runtime = "inproc"
          THEN InProcessBootstrap(i)
          ELSE SubprocessBootstrap(i)
    /\ UNCHANGED <<env, supVars, xVars, tVars, rVars>>

\* Where stream_extract_s3_to_dir's writes below /mnt/models land.
StreamInto(state) ==
    IF mnt = "link"
       THEN /\ tmp' = [tmp EXCEPT !.bundle = state]
            /\ UNCHANGED mnt
       ELSE /\ mnt' = IF state = "complete" THEN "extracted" ELSE "partial"
            /\ UNCHANGED tmp

\* stream_extract_s3_to_dir, ensure_models_on_efs.py:16-31: the object is
\* opened and the first members are written.
StreamWrite(i) ==
    /\ pc[i] = "stream"
    /\ StreamInto("partial")
    /\ Go(i, "streaming")
    /\ UNCHANGED <<env, supVars, prov, xVars, tVars, rVars>>

\* ensure_models_on_efs.py:55-59: get_object or the tar stream raises; what was
\* written stays.
StreamFail(i) ==
    /\ pc[i] \in {"stream", "streaming"}
    /\ Finish(i, "efs_failed")
    /\ UNCHANGED <<env, fsVars, supVars, xVars, tVars, rVars>>

\* ensure_models_on_efs.py:34-35, 61: the last member is written.
StreamDone(i) ==
    /\ pc[i] = "streaming"
    /\ StreamInto("complete")
    /\ Finish(i, "efs_extracted")
    /\ UNCHANGED <<env, supVars, xVars, tVars, rVars>>

\* download_and_extract_model_from_s3, handler.py:100-111.
DlCheck(i) ==
    /\ pc[i] = "dl_check"
    /\ IF ModelsAlreadyExist
          THEN /\ prov' = [prov EXCEPT ![i] = "s3_present"]
               /\ Go(i, "symlink")
               /\ UNCHANGED tmp
          ELSE /\ tmp' = [tmp EXCEPT !.exists = TRUE]
               /\ IF env.runtime = "noboto"
                     THEN Finish(i, "s3_failed")
                     ELSE Go(i, "dl_begin") /\ UNCHANGED prov
    /\ UNCHANGED <<env, mnt, supVars, xVars, tVars, rVars>>

\* handler.py:113-118: the client is made and s3.download_file is called; it
\* raises at once (no such object, no credentials), or starts to write its
\* file in dest_dir.
DownloadBegin(i) ==
    /\ pc[i] = "dl_begin"
    /\ \/ Go(i, "downloading") /\ UNCHANGED prov
       \/ Finish(i, "s3_failed")
    /\ UNCHANGED <<env, fsVars, supVars, xVars, tVars, rVars>>

\* handler.py:118-122: s3.download_file returns, leaving local_archive, or
\* raises, and the file it was writing is gone again (see TmpNonEmpty).
Download(i) ==
    /\ pc[i] = "downloading"
    /\ \/ /\ tmp' = [tmp EXCEPT !.archive = TRUE]
          /\ Go(i, "extract")
          /\ UNCHANGED prov
       \/ /\ Finish(i, "s3_failed")
          /\ UNCHANGED tmp
    /\ UNCHANGED <<env, mnt, supVars, xVars, tVars, rVars>>

\* handler.py:125-129, 134-140: not a tar archive (the file is left, True is
\* returned), or tarfile.open raises, or extractall starts writing.
ExtractOpen(i) ==
    /\ pc[i] = "extract"
    /\ \/ /\ prov' = [prov EXCEPT ![i] = "s3_downloaded"]
          /\ Go(i, "symlink")
          /\ UNCHANGED tmp
       \/ /\ Finish(i, "s3_failed")
          /\ UNCHANGED tmp
       \/ /\ tmp' = [tmp EXCEPT !.bundle = "partial"]
          /\ Go(i, "extracting")
          /\ UNCHANGED prov
    /\ UNCHANGED <<env, mnt, supVars, xVars, tVars, rVars>>

\* handler.py:129-133, 137-142: extractall finishes and the archive is
\* removed, or it raises and archive and members stay.
ExtractRun(i) ==
    /\ pc[i] = "extracting"
    /\ \/ /\ tmp' = [tmp EXCEPT !.bundle = "complete", !.archive = FALSE]
          /\ prov' = [prov EXCEPT ![i] = "s3_downloaded"]
          /\ Go(i, "symlink")
       \/ /\ Finish(i, "s3_failed")
          /\ UNCHANGED tmp
    /\ UNCHANGED <<env, mnt, supVars, xVars, tVars, rVars>>

\* handler.py:201-210: an empty directory at /mnt/models is removed and the
\* link to /tmp/models is made; shutil.rmtree(ignore_errors=True) and a
\* raising os.symlink (a mount point, a read-only parent) leave things as
\* they are.
Symlink(i) ==
    /\ pc[i] = "symlink"
    /\ \/ /\ mnt \in {"absent", "empty"}
          /\ mnt' = "link"
       \/ UNCHANGED mnt
    /\ Go(i, "gate")
    /\ UNCHANGED <<env, tmp, supVars, prov, xVars, tVars, rVars>>

(***************************************************************************)
(* Server supervisor (handler.py:85-97, 144-169, 216-228)                  *)
(***************************************************************************)
\* Thread.is_alive(): started and not yet finished.
IsAlive(t) == launch[t] \in {"import", "poll"}

\* socket.create_connection((SERVER_HOST, SERVER_PORT)) succeeds (handler.py:93).
PortOpen == \E l \in Inv : main[l] = "listening"

\* A bug the handler does not have: the event is not tested before the
\* thread is.
GateSkipsEvent(i) ==
    /\ pc[i] = "gate"
    /\ Go(i, "check_thread")
    /\ prov' = [prov EXCEPT ![i] = "none"]
    /\ UNCHANGED <<env, fsVars, supVars, xVars, tVars, rVars>>

\* handler.py:217-218.  The provisioning result (the local `ok`) is dead from
\* here on.
Gate(i) ==
    /\ pc[i] = "gate"
    /\ IF server_started THEN Go(i, "returned_gate") ELSE Go(i, "check_thread")
    /\ prov' = [prov EXCEPT ![i] = "none"]
    /\ UNCHANGED <<env, fsVars, supVars, xVars, tVars, rVars>>

\* handler.py:220.
NeedsThread == server_thread = 0 \/ ~IsAlive(server_thread)

CheckThread(i) ==
    /\ pc[i] = "check_thread"
    /\ IF NeedsThread THEN Go(i, "assign") ELSE Go(i, "wait")
    /\ UNCHANGED <<env, fsVars, supVars, prov, xVars, tVars, rVars>>

\* handler.py:221: a new Thread object is bound to the global.
Assign(i) ==
    /\ pc[i] = "assign"
    /\ launch' = [launch EXCEPT ![i] = "created"]
    /\ server_thread' = i
    /\ Go(i, "start")
    /\ UNCHANGED <<env, fsVars, server_started, server_start_exc, main, prov, xVars, tVars, rVars>>

\* handler.py:222: the global is read again and start() is called on what it
\* holds now; Thread.start raises RuntimeError on a thread already started.
Start(i) ==
    /\ pc[i] = "start"
    /\ IF launch[server_thread] = "created"
          THEN /\ launch' = [launch EXCEPT ![server_thread] = "import"]
               /\ Go(i, "wait")
          ELSE /\ Go(i, "raised_start")
               /\ UNCHANGED launch
    /\ UNCHANGED <<env, fsVars, server_started, server_thread, server_start_exc,
                   main, prov, xVars, tVars, rVars>>

\* handler.py:224: wait returns because the event is set.
WaitSet(i) ==
    /\ pc[i] = "wait"
    /\ server_started
    /\ Go(i, "check_exc")
    /\ UNCHANGED <<env, fsVars, supVars, prov, xVars, tVars, rVars>>

\* A bug the handler does not have: server_started.wait() without a timeout.
WaitForever(i) ==
    /\ pc[i] = "wait"
    /\ FALSE
    /\ UNCHANGED vars

\* A bug the handler does not have: a call whose wait expires stops the
\* launch threads.
WaitTimeoutCancels(i) ==
    /\ pc[i] = "wait"
    /\ Go(i, "check_exc")
    /\ launch' = [l \in Inv |-> IF IsAlive(l) THEN "timedout" ELSE launch[l]]
    /\ UNCHANGED <<env, fsVars, server_started, server_thread, server_start_exc,
                   main, prov, xVars, tVars, rVars>>

\* handler.py:224: wait returns because its 70 s timeout expired.
WaitTimeout(i) ==
    /\ pc[i] = "wait"
    /\ Go(i, "check_exc")
    /\ UNCHANGED <<env, fsVars, supVars, prov, xVars, tVars, rVars>>

\* handler.py:225-226.
CheckExc(i) ==
    /\ pc[i] = "check_exc"
    /\ IF server_start_exc THEN Go(i, "raised_exc") ELSE Go(i, "check_set")
    /\ UNCHANGED <<env, fsVars, supVars, prov, xVars, tVars, rVars>>

\* handler.py:227-228, and the return to lambda_handler.
CheckSet(i) ==
    /\ pc[i] = "check_set"
    /\ IF server_started THEN Go(i, "returned_wait") ELSE Go(i, "raised_notready")
    /\ UNCHANGED <<env, fsVars, supVars, prov, xVars, tVars, rVars>>

\* start_main_in_thread, handler.py:146-161 and 166-169: the import or the
\* synchronous mod.main() raises (the exception is recorded and the event
\* set), or run_main is started in its own thread, or the module has neither
\* a callable main nor __main__ and nothing is started.
LaunchImport(l) ==
    /\ launch[l] = "import"
    /\ \/ /\ server_start_exc' = TRUE
          /\ server_started' = TRUE
          /\ launch' = [launch EXCEPT ![l] = "raised"]
          /\ UNCHANGED main
       \/ /\ main' = [main EXCEPT ![l] = "running"]
          /\ launch' = [launch EXCEPT ![l] = "poll"]
          /\ UNCHANGED <<server_started, server_start_exc>>
       \/ /\ launch' = [launch EXCEPT ![l] = "poll"]
          /\ UNCHANGED <<server_started, server_start_exc, main>>
    /\ UNCHANGED <<env, fsVars, server_thread, invVars, xVars, tVars, rVars>>

\* handler.py:162-163 with wait_for_port (89-94): a probe connects.
LaunchReady(l) ==
    /\ launch[l] = "poll"
    /\ PortOpen
    /\ server_started' = TRUE
    /\ launch' = [launch EXCEPT ![l] = "ready"]
    /\ UNCHANGED <<env, fsVars, server_thread, server_start_exc, main, invVars,
                   xVars, tVars, rVars>>

\* handler.py:164-165 with wait_for_port (91, 97): the 60 s deadline passed;
\* the thread ends and the event stays clear.
LaunchTimeout(l) ==
    /\ launch[l] = "poll"
    /\ launch' = [launch EXCEPT ![l] = "timedout"]
    /\ UNCHANGED <<env, fsVars, server_started, server_thread, server_start_exc,
                   main, invVars, xVars, tVars, rVars>>

\* mod.main() (handler.py:152) binds SERVER_HOST:SERVER_PORT and listens.
MainListen(l) ==
    /\ main[l] = "running"
    /\ ~PortOpen
    /\ main' = [main EXCEPT ![l] = "listening"]
    /\ UNCHANGED <<env, fsVars, server_started, server_thread, server_start_exc,
                   launch, invVars, xVars, tVars, rVars>>

\* run_main, handler.py:153-156: mod.main() raises (at any time: before it
\* listens, because the port is taken, or while serving).
MainRaise(l) ==
    /\ main[l] \in {"running", "listening"}
    /\ main' = [main EXCEPT ![l] = "raised"]
    /\ server_start_exc' = TRUE
    /\ UNCHANGED <<env, fsVars, server_started, server_thread, launch, invVars,
                   xVars, tVars, rVars>>

\* lambda_handler, handler.py:287-289: forward_to_local is called exactly when
\* ensure_server_running returned.
Forwards(i) == pc[i] \in {"returned_gate", "returned_wait"}

\* ensure_server_running raised.
Raised(i) == pc[i] \in {"raised_exc", "raised_notready", "raised_start", "raised_prov"}

Terminated(i) == Forwards(i) \/ Raised(i)

(***************************************************************************)
(* Request and response translation (handler.py:230-285)                   *)
(*                                                                         *)
(* A byte string is a sequence of numbers in 0..255 and a body string a    *)
(* sequence of code points.  A piece of a URL (path, query string) is a    *)
(* sequence of units, a unit being a character or a percent escape.        *)
(***************************************************************************)

MaxBody == 3

\* Bytes that make every kind of UTF-8 sequence: ASCII "A", the two bytes of
\* U+00E9, the three of U+20AC, an overlong lead byte and a byte that is
\* valid nowhere.
SampleBytes == {65, 195, 169, 226, 130, 172, 192, 255}

Bodies == UNION {[1..n -> SampleBytes] : n \in 0..MaxBody}

IsCont(b) == b \in 128..191

\* bytes.decode("utf-8"), handler.py:271: the length a lead byte announces,
\* 0 for a byte that cannot start a character.
Utf8Len(b0) ==
    IF b0 < 128 THEN 1
    ELSE IF b0 \in 194..223 THEN 2
    ELSE IF b0 \in 224..239 THEN 3
    ELSE IF b0 \in 240..244 THEN 4
    ELSE 0

\* The strict decoder's conditions on a character of n bytes at the head of b:
\* continuation bytes, no overlong form, no surrogate, nothing above U+10FFFF.
Utf8WellFormed(b, n) ==
    /\ \A k \in 2..n : IsCont(b[k])
    /\ b[1] = 224 => b[2] >= 160
    /\ b[1] = 237 => b[2] <= 159
    /\ b[1] = 240 => b[2] >= 144
    /\ b[1] = 244 => b[2] <= 143

CodePoint(b, n) ==
    IF n = 1 THEN b[1]
    ELSE IF n = 2 THEN (b[1] - 192) * 64 + (b[2] - 128)
    ELSE IF n = 3 THEN (b[1] - 224) * 4096 + (b[2] - 128) * 64 + (b[3] - 128)
    ELSE (b[1] - 240) * 262144 + (b[2] - 128) * 4096 + (b[3] - 128) * 64 + (b[4] - 128)

\* resp_body.decode("utf-8"), handler.py:271 and 279: ok is FALSE where the
\* call raises UnicodeDecodeError.
RECURSIVE Utf8Decode(_)
Utf8Decode(b) ==
    IF b = <<>> THEN [ok |-> TRUE, text |-> <<>>]
    ELSE LET n == Utf8Len(b[1]) IN
         IF n = 0 \/ Len(b) < n
            THEN [ok |-> FALSE, text |-> <<>>]
            ELSE IF ~Utf8WellFormed(b, n)
                    THEN [ok |-> FALSE, text |-> <<>>]
                    ELSE LET rest == Utf8Decode(SubSeq(b, n + 1, Len(b))) IN
                         IF rest.ok
                            THEN [ok |-> TRUE, text |-> <<CodePoint(b, n)>> \o rest.text]
                            ELSE [ok |-> FALSE, text |-> <<>>]

\* body.encode("utf-8"), handler.py:253
RECURSIVE Utf8Encode(_)
Utf8Encode(text) ==
    IF text = <<>> THEN <<>>
    ELSE LET c == text[1]
             head == IF c < 128 THEN <<c>>
                     ELSE IF c < 2048 THEN <<192 + (c \div 64), 128 + (c % 64)>>
                     ELSE IF c < 65536
                             THEN <<224 + (c \div 4096), 128 + ((c \div 64) % 64), 128 + (c % 64)>>
                             ELSE <<240 + (c \div 262144), 128 + ((c \div 4096) % 64),
                                    128 + ((c \div 64) % 64), 128 + (c % 64)>>
         IN  head \o Utf8Encode(Tail(text))

\* The base64 alphabet as code points: A-Z, a-z, 0-9, "+", "/".
B64Char(n) ==
    IF n < 26 THEN 65 + n
    ELSE IF n < 52 THEN 97 + (n - 26)
    ELSE IF n < 62 THEN 48 + (n - 52)
    ELSE IF n = 62 THEN 43 ELSE 47

B64Pad == 61

IsB64Pad(c) == c = B64Pad

IsB64Char(c) == c \in 65..90 \/ c \in 97..122 \/ c \in 48..57 \/ c = 43 \/ c = 47

B64Index(c) ==
    IF c \in 65..90 THEN c - 65
    ELSE IF c \in 97..122 THEN c - 97 + 26
    ELSE IF c \in 48..57 THEN c - 48 + 52
    ELSE IF c = 43 THEN 62 ELSE 63

\* base64.b64encode(b).decode("ascii"), handler.py:274 and 282
RECURSIVE B64Encode(_)
B64Encode(b) ==
    IF b = <<>> THEN <<>>
    ELSE IF Len(b) = 1
       THEN LET n == b[1] * 16
            IN  <<B64Char(n \div 64), B64Char(n % 64), B64Pad, B64Pad>>
    ELSE IF Len(b) = 2
       THEN LET n == (b[1] * 256 + b[2]) * 4
            IN  <<B64Char(n \div 4096), B64Char((n \div 64) % 64), B64Char(n % 64), B64Pad>>
    ELSE LET n == b[1] * 65536 + b[2] * 256 + b[3]
         IN  <<B64Char(n \div 262144), B64Char((n \div 4096) % 64),
               B64Char((n \div 64) % 64), B64Char(n % 64)>>
             \o B64Encode(SubSeq(b, 4, Len(b)))

\* The bytes a run of base64 digits stands for.
RECURSIVE B64Bytes(_)
B64Bytes(d) ==
    IF Len(d) < 2 THEN <<>>
    ELSE IF Len(d) = 2 THEN <<(d[1] * 64 + d[2]) \div 16>>
    ELSE IF Len(d) = 3
       THEN LET n == d[1] * 4096 + d[2] * 64 + d[3]
            IN  <<n \div 1024, (n \div 4) % 256>>
    ELSE LET n == d[1] * 262144 + d[2] * 4096 + d[3] * 64 + d[4]
         IN  <<n \div 65536, (n \div 256) % 256, n % 256>>
             \o B64Bytes(SubSeq(d, 5, Len(d)))

\* base64.b64decode(body), handler.py:252, without validation: characters
\* outside the alphabet are dropped, and a last group that is one digit, or
\* that lacks its padding, raises binascii.Error (ok is FALSE).
B64Decode(s) ==
    LET digits == SelectSeq(s, IsB64Char)
        d == [k \in 1..Len(digits) |-> B64Index(digits[k])]
        pads == Len(SelectSeq(s, IsB64Pad))
        r == Len(d) % 4
    IN  IF r = 0 \/ (r = 2 /\ pads >= 2) \/ (r = 3 /\ pads >= 1)
           THEN [ok |-> TRUE, bytes |-> B64Bytes(d)]
           ELSE [ok |-> FALSE, bytes |-> <<>>]

\* A bug the handler does not have: isBase64Encoded is not looked at.
GetBodyBytesAsText(ev) == [ok |-> TRUE, bytes |-> Utf8Encode(ev.body)]

\* get_body_bytes, handler.py:247-253; the event's body is a string.
GetBodyBytes(ev) ==
    IF ev.body = <<>> THEN [ok |-> TRUE, bytes |-> <<>>]
    ELSE IF ev.isBase64Encoded THEN B64Decode(ev.body)
    ELSE [ok |-> TRUE, bytes |-> Utf8Encode(ev.body)]

\* str.lower, str.upper and str.capitalize on the letters the model uses.
LowerChar(c) ==
    CASE c = "H" -> "h" [] c = "O" -> "o" [] c = "S" -> "s" [] c = "T" -> "t"
      [] c = "E" -> "e" [] c = "G" -> "g" [] c = "P" -> "p" [] OTHER -> c

UpperChar(c) ==
    CASE c = "h" -> "H" [] c = "o" -> "O" [] c = "s" -> "S" [] c = "t" -> "T"
      [] c = "e" -> "E" [] c = "g" -> "G" [] c = "p" -> "P" [] OTHER -> c

Lower(s) == [k \in 1..Len(s) |-> LowerChar(s[k])]

Upper(s) == [k \in 1..Len(s) |-> UpperChar(s[k])]

Capitalize(s) == [k \in 1..Len(s) |-> IF k = 1 THEN UpperChar(s[k]) ELSE LowerChar(s[k])]

MaxHeaders == 2
MaxParams == 2
MaxValue == 2

\* The logical request an event describes: what the client asked for.
Methods == {<<"G", "E", "T">>, <<"P", "O", "S", "T">>, <<"p", "o", "s", "t">>}
Paths == {<<"/">>, <<"/", "t">>}
ParamKeys == {<<"q">>, <<"r">>}
ValueChars == {"a", " "}
ParamValues == UNION {[1..n -> ValueChars] : n \in 0..MaxValue}
Params == [key : ParamKeys, value : ParamValues]

\* A query is a list of parameters with distinct names.
Queries ==
    {q \in UNION {[1..n -> Params] : n \in 0..MaxParams} :
        \A j, k \in 1..Len(q) : j # k => q[j].key # q[k].key}

\* Event bodies: none, text "a", "QQ==" (base64 of "A") and "Q", which is
\* not base64.
EventBodies ==
    {[body |-> <<>>, isBase64Encoded |-> FALSE],
     [body |-> <<97>>, isBase64Encoded |-> FALSE],
     [body |-> <<81, 81, 61, 61>>, isBase64Encoded |-> TRUE],
     [body |-> <<81>>, isBase64Encoded |-> TRUE]}

Logicals == [method : Methods, path : Paths, query : Queries, payload : EventBodies]

HeaderNames ==
    {<<"h", "o", "s", "t">>, <<"H", "o", "s", "t">>, <<"H", "O", "S", "T">>,
     <<"h", "O", "S", "T">>, <<"t", "e">>, <<"T", "e">>, <<"T", "E">>, <<"t", "E">>}
HeaderValues == {"1", "2"}
HeaderItems == [name : HeaderNames, value : HeaderValues]

\* A headers mapping in the order of its keys; the keys of a dict differ as
\* strings.
HeaderMaps ==
    {h \in UNION {[1..n -> HeaderItems] : n \in 0..MaxHeaders} :
        \A j, k \in 1..Len(h) : j # k => h[j].name # h[k].name}

\* How a client writes a space in a query string: "+" or "%20".
Styles == {"plus", "percent"}

RawChar(c, style) == IF c = " " THEN (IF style = "plus" THEN "+" ELSE "%20") ELSE c

RawString(s, style) == [k \in 1..Len(s) |-> RawChar(s[k], style)]

\* The query string of the request line, as rawQueryString has it.
RECURSIVE RawQuery(_, _)
RawQuery(q, style) ==
    IF q = <<>> THEN <<>>
    ELSE RawString(q[1].key, style) \o <<"=">> \o RawString(q[1].value, style)
         \o (IF Len(q) > 1 THEN <<"&">> \o RawQuery(Tail(q), style) ELSE <<>>)

\* An absent key of the event and an empty value take the same branches of
\* handler.py:231-251 (`or`, `if not`), so absent is the empty value here.
\* Shape A: rawPath, rawQueryString, requestContext.http.method.
ShapeA(l, style, h) ==
    [rawPath |-> l.path, rawQueryString |-> RawQuery(l.query, style),
     method |-> l.method, path |-> <<>>, queryStringParameters |-> <<>>,
     httpMethod |-> <<>>, headers |-> h,
     body |-> l.payload.body, isBase64Encoded |-> l.payload.isBase64Encoded]

\* Shape B: path, queryStringParameters (decoded names and values), httpMethod.
ShapeB(l, h) ==
    [rawPath |-> <<>>, rawQueryString |-> <<>>, method |-> <<>>,
     path |-> l.path, queryStringParameters |-> l.query,
     httpMethod |-> l.method, headers |-> h,
     body |-> l.payload.body, isBase64Encoded |-> l.payload.isBase64Encoded]

PlainLogical ==
    [method |-> <<"G", "E", "T">>, path |-> <<"/">>, query |-> <<>>,
     payload |-> [body |-> <<>>, isBase64Encoded |-> FALSE]]

PlainEvent == ShapeA(PlainLogical, "plus", <<>>)

Events ==
    {ShapeA(l, s, <<>>) : l \in Logicals, s \in Styles}
    \cup {ShapeB(l, <<>>) : l \in Logicals}
    \cup {ShapeA(PlainLogical, "plus", h) : h \in HeaderMaps}

\* urllib.parse.quote_plus on one character: a space becomes "+", a letter
\* stays, anything else is percent-escaped.
QuotePlusChar(c) ==
    CASE c = " " -> "+" [] c = "+" -> "%2B" [] c = "&" -> "%26"
      [] c = "=" -> "%3D" [] OTHER -> c

QuotePlus(s) == [k \in 1..Len(s) |-> QuotePlusChar(s[k])]

\* urllib.parse.urlencode(qparams), handler.py:235
RECURSIVE Urlencode(_)
Urlencode(q) ==
    IF q = <<>> THEN <<>>
    ELSE QuotePlus(q[1].key) \o <<"=">> \o QuotePlus(q[1].value)
         \o (IF Len(q) > 1 THEN <<"&">> \o Urlencode(Tail(q)) ELSE <<>>)

\* f"http://{SERVER_HOST}:{SERVER_PORT}", handler.py:236
ServerUrl == <<"http://127.0.0.1:5000">>

\* build_target_url, handler.py:230-239
BuildTargetUrl(ev) ==
    LET path == IF ev.rawPath # <<>> THEN ev.rawPath
                ELSE IF ev.path # <<>> THEN ev.path ELSE <<"/">>
        qs == IF ev.rawQueryString # <<>> THEN ev.rawQueryString
              ELSE IF ev.queryStringParameters # <<>>
                      THEN Urlencode(ev.queryStringParameters)
                      ELSE <<>>
        url == ServerUrl \o path
    IN  IF qs # <<>>
           THEN url \o (IF qs[1] # "?" THEN <<"?">> \o qs ELSE qs)
           ELSE url

\* get_method, handler.py:241-242
GetMethod(ev) ==
    IF ev.method # <<>> THEN ev.method
    ELSE IF ev.httpMethod # <<>> THEN ev.httpMethod ELSE <<"G", "E", "T">>

\* get_headers, handler.py:244-245
GetHeaders(ev) == ev.headers

\* A bug the handler does not have: the name is compared as it is written.
IsHostAsWritten(k) == k = <<"h", "o", "s", "t">>

\* handler.py:262: k.lower() == "host"
IsHost(k) == Lower(k) = <<"h", "o", "s", "t">>

\* req.add_header(k, v), handler.py:264: urllib keeps the headers of a
\* Request in a dict under key.capitalize().
AddHeader(hs, k, v) ==
    {e \in hs : e.name # Capitalize(k)} \cup {[name |-> Capitalize(k), value |-> v]}

\* The loop of handler.py:261-264 over headers.items().
RECURSIVE ForwardedHeaders(_, _)
ForwardedHeaders(hs, items) ==
    IF items = <<>> THEN hs
    ELSE IF IsHost(items[1].name)
            THEN ForwardedHeaders(hs, Tail(items))
            ELSE ForwardedHeaders(AddHeader(hs, items[1].name, items[1].value), Tail(items))

NoRequest ==
    [state |-> "none", url |-> <<>>, method |-> <<>>, headers |-> {}, data |-> <<>>]

\* The Request of handler.py:256-264; data is <<>> for None.
OutboundRequest(ev) ==
    [state |-> "built",
     url |-> BuildTargetUrl(ev),
     method |-> Upper(GetMethod(ev)),
     headers |-> ForwardedHeaders({}, GetHeaders(ev)),
     data |-> GetBodyBytes(ev).bytes]

\* What the backend does with one request: the connection is refused, times
\* out or breaks the protocol before a status line is read, or a status line
\* arrives and the body after it can be read to its end or not.
Upstreams ==
    [kind : {"refused", "timeout", "protocol"}, status : {0}, body : {<<>>},
     readable : {FALSE}]
    \cup [kind : {"ok"}, status : {200}, body : Bodies, readable : BOOLEAN]
    \cup [kind : {"http_error"}, status : {404, 500}, body : Bodies, readable : BOOLEAN]

PlainUpstream == [kind |-> "ok", status |-> 200, body |-> <<>>, readable |-> TRUE]

ResponseKeys == {"statusCode", "headers", "body", "isBase64Encoded"}

NoReply ==
    [state |-> "none", keys |-> {}, statusCode |-> 0, body |-> <<>>,
     isBase64Encoded |-> FALSE]

\* An exception leaves forward_to_local.
Propagated ==
    [state |-> "raised", keys |-> {}, statusCode |-> 0, body |-> <<>>,
     isBase64Encoded |-> FALSE]

\* "Upstream", the first word of the body of handler.py:285.
ProxyErrorText == <<85, 112, 115, 116, 114, 101, 97, 109>>

\* handler.py:285: a dict of statusCode and body only.
BadGateway ==
    [state |-> "returned", keys |-> {"statusCode", "body"}, statusCode |-> 502,
     body |-> ProxyErrorText, isBase64Encoded |-> FALSE]

\* handler.py:270-275 and 278-283: text if the body decodes, else base64.
Translate(status, body) ==
    LET d == Utf8Decode(body)
    IN  [state |-> "returned", keys |-> ResponseKeys, statusCode |-> status,
         body |-> IF d.ok THEN d.text ELSE B64Encode(body),
         isBase64Encoded |-> ~d.ok]

\* handler.py:265-285.  urlopen or resp.read() raising inside the with block
\* is caught by `except Exception`; e.read() is called in the handler of
\* HTTPError, where no clause of the same try catches what it raises.
Respond(up) ==
    IF up.kind \in {"refused", "timeout", "protocol"} THEN BadGateway
    ELSE IF up.kind = "ok"
            THEN IF up.readable THEN Translate(up.status, up.body) ELSE BadGateway
            ELSE IF up.readable THEN Translate(up.status, up.body) ELSE Propagated

\* forward_to_local, handler.py:256-264: the request is built; b64decode
\* raising is outside the try.
BuildRequest ==
    /\ req.state = "none"
    /\ reply.state = "none"
    /\ IF GetBodyBytes(event).ok
          THEN req' = OutboundRequest(event) /\ UNCHANGED reply
          ELSE reply' = Propagated /\ UNCHANGED req
    /\ UNCHANGED <<env, fsVars, supVars, invVars, xVars, event, upstream, rVars>>

\* forward_to_local, handler.py:265-285
Urlopen ==
    /\ req.state = "built"
    /\ reply.state = "none"
    /\ reply' = Respond(upstream)
    /\ UNCHANGED <<env, fsVars, supVars, invVars, xVars, event, req, upstream, rVars>>

TIdle ==
    /\ event = PlainEvent
    /\ req = NoRequest
    /\ upstream = PlainUpstream
    /\ reply = NoReply

(***************************************************************************)
(* Backend resolution (handler.py:27-52)                                   *)
(***************************************************************************)
COMMON_PATHS ==
    <<"main:app", "app:app", "server:app", "libretranslate:app",
      "translate:app", "api:app", "app.main:app", "src.app:app">>

\* What importlib.import_module and hasattr do for a candidate: there is no
\* such module, importing it raises, it has no such attribute, or it has.
ImportOutcomes == {"absent", "raises", "no_attr", "has_attr"}

\* "app.main" is a submodule of "app": it is imported after its package.
Importable(mods) ==
    mods[2] \in {"absent", "raises"} => mods[7] = mods[2]

\* A bug the handler does not have: the first failing import ends the search.
RECURSIVE TryUntilFailure(_, _)
TryUntilFailure(k, mods) ==
    IF k > Len(COMMON_PATHS) THEN 0
    ELSE IF mods[k] \in {"absent", "raises"} THEN 0
    ELSE IF mods[k] = "has_attr" THEN k
    ELSE TryUntilFailure(k + 1, mods)

\* The loop of try_find_app from candidate k on, handler.py:39-50: the
\* number of the candidate whose attribute is returned, 0 for None.
RECURSIVE TryFrom(_, _)
TryFrom(k, mods) ==
    IF k > Len(COMMON_PATHS) THEN 0
    ELSE IF mods[k] \in {"absent", "raises"} THEN TryFrom(k + 1, mods)
    ELSE IF mods[k] = "has_attr" THEN k
    ELSE TryFrom(k + 1, mods)

\* app = try_find_app(), handler.py:52
TryFindApp ==
    /\ app = -1
    /\ app' = TryFrom(1, modules)
    /\ UNCHANGED <<env, fsVars, supVars, invVars, xVars, tVars, modules>>

\* handler.py:79: no candidate exists, app is None and the adapter
\* supervises a loopback server.
LoopbackSelected ==
    /\ modules = [k \in 1..Len(COMMON_PATHS) |-> "absent"]
    /\ app = 0

(***************************************************************************)
(* The instance                                                            *)
(***************************************************************************)
XIdle ==
    /\ xroutine = [fn |-> "none", filter |-> "none"]
    /\ xlinks = {}
    /\ xlast = "none"
    /\ xcount = 0

\* Cold start: module globals as handler.py:85-87 sets them, nothing at
\* /tmp/models, and /mnt/models absent, an empty directory or populated.
ColdStart ==
    /\ env \in EnvSettings
    /\ mnt \in {"absent", "empty", "full"}
    /\ tmp = [exists |-> FALSE, archive |-> FALSE, bundle |-> "none"]
    /\ server_started = FALSE
    /\ server_thread = 0
    /\ server_start_exc = FALSE
    /\ launch = [l \in Inv |-> "none"]
    /\ main = [l \in Inv |-> "none"]
    /\ pc = [i \in Inv |-> "idle"]
    /\ prov = [i \in Inv |-> "none"]

Init == ColdStart /\ XIdle /\ TIdle /\ LoopbackSelected

\* The provisioning half of ensure_server_running (handler.py:174-214).
ProvStep(i) ==
    \/ ProvCheck(i)
    \/ EfsBootstrap(i)
    \/ StreamWrite(i)
    \/ StreamFail(i)
    \/ StreamDone(i)
    \/ DlCheck(i)
    \/ DownloadBegin(i)
    \/ Download(i)
    \/ ExtractOpen(i)
    \/ ExtractRun(i)
    \/ Symlink(i)

\* The server-start half of ensure_server_running (handler.py:216-228).
SupStep(i) ==
    \/ Gate(i)
    \/ CheckThread(i)
    \/ Assign(i)
    \/ Start(i)
    \/ WaitSet(i)
    \/ WaitTimeout(i)
    \/ CheckExc(i)
    \/ CheckSet(i)

InvStep(i) == ProvStep(i) \/ SupStep(i)

LaunchStep(l) ==
    \/ LaunchImport(l)
    \/ LaunchReady(l)
    \/ LaunchTimeout(l)

MainStep(l) ==
    \/ MainListen(l)
    \/ MainRaise(l)

Next ==
    \/ \E i \in Inv : Invoke(i)
    \/ \E i \in Inv : InvStep(i)
    \/ \E l \in Inv : LaunchStep(l)
    \/ \E l \in Inv : MainStep(l)

Spec == Init /\ [][Next]_vars

TypeOK ==
    /\ env \in EnvSettings
    /\ mnt \in MntStates
    /\ tmp \in [exists : BOOLEAN, archive : BOOLEAN, bundle : BundleStates]
    /\ server_started \in BOOLEAN
    /\ server_thread \in 0..NumInv
    /\ server_start_exc \in BOOLEAN
    /\ launch \in [Inv -> LaunchStates]
    /\ main \in [Inv -> MainStates]
    /\ pc \in [Inv -> PcValues]
    /\ prov \in [Inv -> ProvValues]
    /\ req.state \in {"none", "built"}
    /\ upstream \in Upstreams
    /\ reply.state \in {"none", "returned", "raised"}
    /\ reply.keys \subseteq ResponseKeys
    /\ modules \in [1..Len(COMMON_PATHS) -> ImportOutcomes]
    /\ app \in -1..Len(COMMON_PATHS)

\* An instance with neither an EFS mount nor a bucket: provisioning is the
\* branch of handler.py:214 and only the server-start half does anything.
\* The two halves of ensure_server_running share no variable but pc (the
\* first reads and writes env, mnt, tmp and prov, the second the three
\* module globals), so what the server-start half can do is the same on
\* every instance.
NoAssets == [efs |-> "custom_unusable", s3 |-> "none", runtime |-> "inproc"]

InitSup == Init /\ env = NoAssets /\ mnt = "absent"

NextSup ==
    \/ \E i \in Inv : Invoke(i)
    \/ \E i \in Inv : ProvCheck(i)
    \/ \E i \in Inv : SupStep(i)
    \/ \E l \in Inv : LaunchStep(l)
    \/ \E l \in Inv : MainStep(l)

SpecSup == InitSup /\ [][NextSup]_vars

\* Every thread that can take a step of the code eventually takes it: the
\* interpreter schedules every runnable thread, Event.wait(timeout=70.0)
\* returns and wait_for_port ends at its deadline.  Nothing is assumed of the
\* backend's main() nor of when the runtime delivers an invocation.
FairSup ==
    /\ SpecSup
    /\ \A i \in Inv : WF_vars(SupStep(i)) /\ WF_vars(ProvCheck(i))
    /\ \A l \in Inv : WF_vars(LaunchStep(l))

\* Provisioning alone, on every instance: invocations are followed up to
\* handler.py:216.
NextProv ==
    \/ \E i \in Inv : Invoke(i)
    \/ \E i \in Inv : ProvStep(i)

SpecProv == Init /\ [][NextProv]_vars

(***************************************************************************)
(* Archive extraction: stream_extract_s3_to_dir                            *)
(* (ensure_models_on_efs.py:23-33) and the extractall of                   *)
(* download_and_extract_model_from_s3 (handler.py:125-129)                 *)
(*                                                                         *)
(* A path is the sequence of its components below the root.  The archive   *)
(* is read one member at a time, so a behaviour is an archive and the      *)
(* members are drawn as the walk reaches them.                             *)
(***************************************************************************)
\* Longest member name, in components, and longest archive, in members.
MaxDepth == 2
MaxMembers == 3

\* The target directory /a, and a directory outside it to which the
\* archive's symbolic links point.
Target == <<"a">>
OutDir == <<"out">>

Comp == {"a", "s", ".."}
CompSeqs == UNION {[1..n -> Comp] : n \in 1..MaxDepth}

\* member.name ("/"-prefixed when abs) and the member's type.
Members == [abs : BOOLEAN, comps : CompSeqs, kind : {"file", "symlink"}]

\* tarfile's extraction filter: none before Python 3.14 ("trusted"),
\* tarfile.data_filter from 3.14 on ("data").
Filters == {"trusted", "data"}

Pop(p) == IF p = <<>> THEN <<>> ELSE SubSeq(p, 1, Len(p) - 1)

\* os.path.normpath: ".." is resolved on the text of the path.
RECURSIVE NormFrom(_, _)
NormFrom(cur, comps) ==
    IF comps = <<>> THEN cur
    ELSE NormFrom(IF Head(comps) = ".." THEN Pop(cur) ELSE Append(cur, Head(comps)),
                  Tail(comps))

\* os.path.abspath(os.path.join(target_dir, member.name)),
\* ensure_models_on_efs.py:26-27: join drops target_dir for an absolute name.
AbsMemberPath(m) == NormFrom(IF m.abs THEN <<>> ELSE Target, m.comps)

\* os.path.commonpath([T]) == os.path.commonpath([T, p]): T is a prefix of p.
InTarget(p) ==
    /\ Len(p) >= Len(Target)
    /\ SubSeq(p, 1, Len(Target)) = Target

\* ensure_models_on_efs.py:27: the member is refused.
Suspicious(m) == ~InTarget(AbsMemberPath(m))

\* Where the file system puts a path: components are followed one by one and
\* a symbolic link met before the last component is entered.
RECURSIVE ResolveFrom(_, _)
ResolveFrom(cur, comps) ==
    IF comps = <<>> THEN cur
    ELSE LET nxt == IF Head(comps) = ".." THEN Pop(cur) ELSE Append(cur, Head(comps))
             rest == Tail(comps)
         IN  ResolveFrom(IF rest # <<>> /\ nxt \in xlinks THEN OutDir ELSE nxt, rest)

\* Where TarFile.extract(member, path=target) creates the member: below path
\* for a relative name, at the name itself for an absolute one; the data
\* filter strips the leading "/".
Destination(filter, m) ==
    ResolveFrom(IF m.abs /\ filter = "trusted" THEN <<>> ELSE Target, m.comps)

\* tarfile.data_filter refuses a link that points outside the destination and
\* a member whose real path is outside it.
Refused(filter, m) ==
    /\ filter = "data"
    /\ \/ m.kind = "symlink"
       \/ ~InTarget(Destination(filter, m))

\* Nothing can be created in place of the target directory itself or of a
\* link to a directory.
Blocked(filter, m) ==
    LET d == Destination(filter, m) IN d = Target \/ d \in xlinks \/ d = <<>>

\* The member is created: xlast says on which side of the target.
Written(filter, m) ==
    LET d == Destination(filter, m) IN
    /\ xlast' = IF InTarget(d) THEN "inside" ELSE "outside"
    /\ xlinks' = IF m.kind = "symlink" /\ InTarget(d) THEN xlinks \cup {d} ELSE xlinks

\* One turn of the loop of ensure_models_on_efs.py:24-33.
StreamExtractMember(m) ==
    /\ xroutine.fn = "stream_extract_s3_to_dir"
    /\ xcount < MaxMembers
    /\ xcount' = xcount + 1
    /\ IF Suspicious(m)
          THEN xlast' = "skipped" /\ UNCHANGED xlinks
          ELSE IF Refused(xroutine.filter, m) \/ Blocked(xroutine.filter, m)
                  THEN xlast' = "failed" /\ UNCHANGED xlinks
                  ELSE Written(xroutine.filter, m)
    /\ UNCHANGED <<env, fsVars, supVars, invVars, xroutine, tVars, rVars>>

\* One member of tf.extractall(dest_dir), handler.py:128-129: there is no
\* guard, and an error ends the extraction (handler.py:137-140).
ExtractAllMember(m) ==
    /\ xroutine.fn = "extractall"
    /\ xcount < MaxMembers
    /\ IF Refused(xroutine.filter, m) \/ Blocked(xroutine.filter, m)
          THEN /\ xlast' = "failed"
               /\ xcount' = MaxMembers
               /\ UNCHANGED xlinks
          ELSE /\ xcount' = xcount + 1
               /\ Written(xroutine.filter, m)
    /\ UNCHANGED <<env, fsVars, supVars, invVars, xroutine, tVars, rVars>>

InitExtract ==
    /\ ColdStart
    /\ env = NoAssets
    /\ mnt = "absent"
    /\ xroutine \in [fn : {"stream_extract_s3_to_dir", "extractall"}, filter : Filters]
    /\ xlinks = {}
    /\ xlast = "none"
    /\ xcount = 0
    /\ TIdle
    /\ LoopbackSelected

NextExtract ==
    \/ \E m \in Members : StreamExtractMember(m)
    \/ \E m \in Members : ExtractAllMember(m)

SpecExtract == InitExtract /\ [][NextExtract]_vars

\* forward_to_local on one event against one behaviour of the backend: every
\* event with a plain backend, and every backend with a plain event.
InitProxy ==
    /\ ColdStart
    /\ env = NoAssets
    /\ mnt = "absent"
    /\ XIdle
    /\ LoopbackSelected
    /\ req = NoRequest
    /\ reply = NoReply
    /\ \/ event \in Events /\ upstream = PlainUpstream
       \/ event = PlainEvent /\ upstream \in Upstreams

NextProxy == BuildRequest \/ Urlopen

SpecProxy == InitProxy /\ [][NextProxy]_vars

\* Module initialisation, handler.py:52, in every image.
InitResolve ==
    /\ ColdStart
    /\ env = NoAssets
    /\ mnt = "absent"
    /\ XIdle
    /\ TIdle
    /\ modules \in [1..Len(COMMON_PATHS) -> ImportOutcomes]
    /\ Importable(modules)
    /\ app = -1

NextResolve == TryFindApp

SpecResolve == InitResolve /\ [][NextResolve]_vars

(***************************************************************************)
(* Properties: server supervisor                                           *)
(***************************************************************************)
\* Thread objects whose start() was called.
Launched == {l \in Inv : launch[l] \notin {"none", "created"}}

\* A launch ended without the backend reachable.
LaunchRaised == \E l \in Inv : launch[l] = "raised"
LaunchTimedOut == \E l \in Inv : launch[l] = "timedout"

\* C1: over the instance's lifetime start_main_in_thread is started at most
\* once, whatever the interleaving of the ensure_server_running calls.
C1_LaunchedOnce == Cardinality(Launched) <= 1

\* C2: once a launch has ended because the port did not open within the
\* deadline, no further launch thread is started and no invocation's
\* ensure_server_running returns normally: the failure is terminal.
C2_TimedOutIsTerminal ==
    [][LaunchTimedOut =>
          /\ \A l \in Inv : launch'[l] = "import" => launch[l] = "import"
          /\ \A i \in Inv : Forwards(i)' => Forwards(i)]_vars

\* C3: in a state where a launch has failed (it recorded an exception or its
\* readiness wait timed out) no invocation gets to forward_to_local: every
\* ensure_server_running that ends from then on raises.
C3_NoForwardAfterFailure ==
    [][(LaunchRaised \/ LaunchTimedOut) =>
          \A i \in Inv : Terminated(i)' /\ ~Terminated(i) => Raised(i)']_vars

\* C4: the invocations that waited for the same launch end alike: when only
\* one launch thread was ever created, it is never the case that one waiter
\* raised a startup error and another returned and proxies.
C4_WaitersAgree ==
    Cardinality({l \in Inv : launch[l] # "none"}) = 1 =>
        ~\E i, j \in Inv :
            /\ pc[i] \in {"raised_exc", "raised_notready"}
            /\ pc[j] = "returned_wait"

\* C5: every call of ensure_server_running ends: an invocation that entered
\* the handler eventually returns to lambda_handler or raises.
C5_EveryCallEnds == \A i \in Inv : (pc[i] # "idle") ~> Terminated(i)

\* C5 witness: a call that waited at the gate for a backend that never
\* listened, and ended when its wait expired.
C5_Witness ==
    \E i \in Inv :
        /\ pc[i] = "raised_notready"
        /\ ~server_started
        /\ ~server_start_exc
        /\ LaunchTimedOut

(***************************************************************************)
(* Properties: extraction and provisioning                                 *)
(***************************************************************************)
\* C6: whatever the archive, neither extraction routine creates a member
\* outside the target directory.
C6_NothingOutsideTarget == xlast # "outside"

\* A provisioning step has completed an extraction into its target.
Populated == tmp.bundle = "complete" \/ mnt = "extracted"

\* A provisioning step has left something in its target: a complete bundle,
\* an object that was no archive and was left in place (handler.py:134-136),
\* or what a failed extraction wrote.
TargetWritten ==
    \/ tmp.archive
    \/ tmp.bundle # "none"
    \/ mnt \in {"partial", "extracted"}

\* Invocations that are inside the download/extract pass of
\* download_and_extract_model_from_s3 into /tmp/models.
Provisioning ==
    {i \in Inv : pc[i] \in {"dl_begin", "downloading", "extract", "extracting"}}

\* C7: at most one invocation at a time is downloading or extracting into
\* /tmp/models.
C7_OneProvisionerAtATime == Cardinality(Provisioning) <= 1

\* C8: once a provisioning step has populated its target (and already when
\* it has written anything into it), no provisioning step decided from then
\* on calls object storage: no invocation enters s3.download_file nor the
\* script's get_object.
C8_PopulatedMeansNoNetwork ==
    [][TargetWritten =>
          \A i \in Inv :
              /\ pc'[i] = "dl_begin" => pc[i] = "dl_begin"
              /\ pc'[i] = "stream" => pc[i] = "stream"]_vars

\* C8 witness: one invocation downloaded and extracted, another then took
\* the already-present shortcut.
C8_Witness ==
    \E i, j \in Inv :
        /\ prov[j] \in {"s3_downloaded", "efs_extracted"}
        /\ Populated
        /\ prov[i] \in {"s3_present", "efs_present"}

\* C9: an invocation that found the shared mount path non-empty (it took the
\* branch of handler.py:177) gets a successful provisioning result and makes
\* no object-storage call, whatever the bucket and key settings.
C9_NonEmptyMountSucceedsOffline ==
    \A i \in Inv :
        /\ prov[i] # "efs_failed"
        /\ pc[i] \notin {"stream", "streaming"}

TransportFailure ==
    upstream.kind \in {"refused", "timeout", "protocol"} \/ ~upstream.readable

\* What get_body_bytes makes of the body and the flag of the response.
ReplyBytes ==
    GetBodyBytes([body |-> reply.body, isBase64Encoded |-> reply.isBase64Encoded])

\* C11: once the request is built, forward_to_local returns a response
\* whatever the backend does; a transport failure gives status 502 with a
\* text body, and a backend HTTP error gives the backend's status and body.
C11_TransportFailureIs502 ==
    req.state = "built" /\ reply.state # "none" =>
        /\ reply.state = "returned"
        /\ TransportFailure =>
               reply.statusCode = 502 /\ reply.body # <<>> /\ ~reply.isBase64Encoded
        /\ upstream.kind = "http_error" /\ ~TransportFailure =>
               reply.statusCode = upstream.status /\ ReplyBytes.bytes = upstream.body

\* C12: every response forward_to_local returns has the four fields
\* statusCode, headers, body and isBase64Encoded, and isBase64Encoded is true
\* exactly when the backend's body is not valid UTF-8, the body then being
\* its base64 encoding.
C12_FourFieldsAlways ==
    reply.state = "returned" =>
        /\ reply.keys = ResponseKeys
        /\ reply.isBase64Encoded <=> ~Utf8Decode(upstream.body).ok
        /\ reply.isBase64Encoded => reply.body = B64Encode(upstream.body)

\* C13: the body and flag that the response translation makes of the bytes b
\* of a backend response are turned back into exactly b by get_body_bytes.
C13_RoundTrip ==
    reply.state = "returned" /\ reply.keys = ResponseKeys =>
        ReplyBytes = [ok |-> TRUE, bytes |-> upstream.body]

\* A body of the greatest length that is not UTF-8 went through base64.
C13_Witness ==
    /\ reply.state = "returned"
    /\ reply.isBase64Encoded
    /\ Len(upstream.body) = MaxBody
    /\ ReplyBytes.bytes = upstream.body

HostName == <<"h", "o", "s", "t">>

\* No header of the request is named host in any casing.
HostFree == \A e \in req.headers : Lower(e.name) # HostName

\* Every header of the event that is not named host is in the request under
\* the same name, casing apart, with the same value.
OthersCarried ==
    \A k \in 1..Len(event.headers) :
        Lower(event.headers[k].name) # HostName =>
            \E e \in req.headers :
                /\ Lower(e.name) = Lower(event.headers[k].name)
                /\ e.value = event.headers[k].value

\* No two header names of the event are equal under case-insensitive
\* comparison.
CaseDistinct ==
    \A j, k \in 1..Len(event.headers) :
        j # k => Lower(event.headers[j].name) # Lower(event.headers[k].name)

\* C14 as stated: for every event, the request carries no host header and
\* carries every other header of the event with its value.
C14_HostDroppedOthersCarried ==
    req.state = "built" => HostFree /\ OthersCarried

\* C14, amended: for every event whose header names differ under
\* case-insensitive comparison, the request carries no host header and
\* carries every other header of the event with its value; for every event
\* at all, the request carries no host header.
C14_HostDroppedDistinctCarried ==
    req.state = "built" => HostFree /\ (CaseDistinct => OthersCarried)

\* An event with a Host header in capitals and another header.
C14_Witness ==
    /\ req.state = "built"
    /\ Len(event.headers) = 2
    /\ \E k \in 1..2 : event.headers[k].name = <<"H", "O", "S", "T">>
    /\ \E k \in 1..2 : Lower(event.headers[k].name) = <<"t", "e">>
    /\ Cardinality(req.headers) = 1

\* The shape-B event of the request that the shape-A event ev describes,
\* when ev's query string is a rendering of the parameters q.
CounterpartB(ev, q) ==
    ShapeB([method |-> ev.method, path |-> ev.rawPath, query |-> q,
            payload |-> [body |-> ev.body, isBase64Encoded |-> ev.isBase64Encoded]],
           ev.headers)

\* C15: the shape-A event and the shape-B event of one logical request give
\* the same outbound request: URL, method and body bytes.
C15_ShapesAgree ==
    req.state = "built" /\ event.rawPath # <<>> =>
        \A q \in Queries, s \in Styles :
            event.rawQueryString = RawQuery(q, s) =>
                OutboundRequest(CounterpartB(event, q)) = req

(***************************************************************************)
(* Properties: backend resolution                                          *)
(***************************************************************************)

Qualifying == {k \in 1..Len(COMMON_PATHS) : modules[k] = "has_attr"}

\* C16: try_find_app returns the attribute of the first candidate of
\* COMMON_PATHS that imports and has the attribute, failing imports and
\* missing attributes being passed over, and None when there is no such
\* candidate.
C16_FirstCandidateWins ==
    app # -1 =>
        IF Qualifying = {} THEN app = 0
        ELSE app \in Qualifying /\ \A k \in Qualifying : app <= k

\* The third candidate wins after a raising import and a missing attribute,
\* with a later candidate that qualifies too.
C16_Witness ==
    /\ app = 3
    /\ modules[1] = "raises"
    /\ modules[2] = "no_attr"
    /\ modules[5] = "has_attr"

(***************************************************************************)
(* Properties: Ready, partial bundles, the link                            *)
(***************************************************************************)

\* The event was set by a launch whose probe connected (handler.py:163).
Ready == server_started /\ \E l \in Inv : launch[l] = "ready"

\* Where a call is before it has tested the event at handler.py:217.
BeforeGate ==
    {"idle", "prov_check", "boot", "stream", "streaming", "dl_check", "dl_begin",
     "downloading", "extract", "extracting", "symlink", "gate"}

\* C17: once a successful launch has set the event it stays set, and a call
\* that has not yet tested it returns at handler.py:218: it creates no
\* thread and raises nothing.
C17_ReadyIsStable ==
    [][Ready =>
          /\ Ready'
          /\ \A i \in Inv :
                pc[i] \in BeforeGate => pc'[i] \in BeforeGate \cup {"returned_gate"}]_vars

\* One call waited for the only launch and another came after it and
\* returned at the gate; no failure was ever recorded.
C17_Witness ==
    /\ Ready
    /\ ~server_start_exc
    /\ Cardinality({l \in Inv : launch[l] # "none"}) = 1
    /\ \E i, j \in Inv : pc[i] = "returned_wait" /\ pc[j] = "returned_gate"

\* /tmp/models holds no half-extracted bundle and no file being downloaded.
TmpSettled == tmp.bundle # "partial" /\ ~\E j \in Inv : pc[j] = "downloading"

\* The directory ensure_models finds non-empty is not one an extraction is
\* still writing or left unfinished.
MntSettled == IF mnt = "link" THEN TmpSettled ELSE mnt # "partial"

\* C18: a provisioning step that finds its target already present finds a
\* bundle that is complete, never one that is partly extracted or still
\* being downloaded.
C18_PresentMeansComplete ==
    [][\A i \in Inv :
          /\ prov[i] # "s3_present" /\ prov'[i] = "s3_present" => TmpSettled
          /\ prov[i] # "efs_present" /\ prov'[i] = "efs_present" /\ env.efs = "mnt"
                => MntSettled]_vars

\* C19: the expiry of a call's wait and the raise that follows leave the
\* launch thread, the backend and server_thread as they are, and a launch
\* thread that is polling can set the event as soon as the port is open.
C19_TimeoutDoesNotCancel ==
    [][/\ \A i \in Inv :
             \/ pc[i] = "wait" /\ pc'[i] = "check_exc" /\ ~server_started
             \/ Raised(i)' /\ ~Raised(i)
             => launch' = launch /\ main' = main /\ server_thread' = server_thread
       /\ \A l \in Inv : launch[l] = "poll" /\ PortOpen => ENABLED LaunchReady(l)]_vars

\* The call that started the only launch gave up, the launch went on to
\* Ready, and a later call returned at the gate.
C19_Witness ==
    \E i, j \in Inv :
        /\ pc[i] = "raised_notready"
        /\ launch[i] = "ready"
        /\ server_started
        /\ ~server_start_exc
        /\ Cardinality({l \in Inv : launch[l] # "none"}) = 1
        /\ pc[j] = "returned_gate"

\* The path LT_EFS_MOUNT names is a link to /tmp/models.
ConfiguredMountIsLink == env.efs = "mnt" /\ mnt = "link"

\* C20: after a download and extraction into /tmp/models that succeeded, the
\* path LT_EFS_MOUNT names is a link to /tmp/models, unless the link could
\* not be made (os.symlink raised, the empty directory could not be
\* removed); a directory with entries and a link at /mnt/models are never
\* removed or replaced.
C20_ConfiguredMountLinked ==
    [][/\ \A i \in Inv :
             /\ pc[i] = "symlink" /\ pc'[i] = "gate" /\ prov[i] = "s3_downloaded"
             /\ ~(mnt \in {"absent", "empty"} /\ mnt' = mnt)
             => ConfiguredMountIsLink'
       /\ mnt \in {"full", "partial", "extracted"} => mnt' \in {"full", "partial", "extracted"}
       /\ mnt = "link" => mnt' = "link"]_vars

====
